---- MODULE Spec2Model ----
(***************************************************************************)
(* Path properties of linux-kernel-module-cheat: the prefix tree of        *)
(* property overrides, its merge (PathProperties.update), the resolver     *)
(* get(path) and the two predicates should_be_built / should_be_tested.    *)
(*                                                                         *)
(* Python values are modelled as follows.                                  *)
(*   dict        a function whose domain is its key set; {} is <<>>        *)
(*   list        a sequence                                                *)
(*   str, int    a string, an integer                                      *)
(*   bool        TRUE / FALSE                                              *)
(*   None, set, Signals member, and the str given to allowed_archs         *)
(*               a record tagged by its Python type (field "type")         *)
(*   exception   the name of the exception in a field "raised"             *)
(***************************************************************************)
EXTENDS Integers, Sequences, FiniteSets, TLC

----------------------------------------------------------------------------
(* Python values *)

EmptyDict == <<>>

None == [type |-> "NoneType"]

SetOf(elts) == [type |-> "set", elts |-> elts]

Str(s) == [type |-> "str", s |-> s]

Signal(name) == [type |-> "Signals", name |-> name]

SIGABRT == Signal("SIGABRT")

SIGILL == Signal("SIGILL")

SIGFPE == Signal("SIGFPE")

SIGSEGV == Signal("SIGSEGV")

SIGHUP == Signal("SIGHUP")

LF == "LF"

Tuple(cur_properties, cur_children) ==
    [type |-> "tuple", elts |-> <<cur_properties, cur_children>>]

Dict(properties) == [type |-> "dict", dict |-> properties]

(* {**base, **delta} and base.update(delta): the keys of both, delta wins *)
DictUpdate(base, delta) == delta @@ base

(* s[i:i+1] of a str *)
CharAt(s, i) == SubSeq(s, i, i)

(* needle in haystack, for two str: substring test *)
StrContains(haystack, needle) ==
    \E i \in 1..(Len(haystack) - Len(needle) + 1) :
        SubSeq(haystack, i, i + Len(needle) - 1) = needle

(* x in container, for the container types allowed_archs takes *)
PyIn(x, container) ==
    IF container.type = "set" THEN x \in container.elts
    ELSE StrContains(container.s, x)

----------------------------------------------------------------------------
(* class PathProperties: the schema *)

default_c_std == "c11"

default_cxx_std == "c++17"

default_properties ==
    [allowed_archs |-> None,
     arm_aarch32 |-> FALSE,
     baremetal |-> FALSE,
     c_std |-> default_c_std,
     cc_flags |-> <<"-Wall", LF, "-Werror", LF, "-Wextra", LF,
                    "-Wno-unused-function", LF, "-ggdb3", LF,
                    "-fno-pie", LF, "-no-pie", LF>>,
     cc_flags_after |-> <<"-lm", LF>>,
     cc_pedantic |-> TRUE,
     cxx_std |-> default_cxx_std,
     disrupts_system |-> FALSE,
     exit_status |-> 0,
     extra_objs |-> <<>>,
     extra_objs_disable_baremetal_bootloader |-> FALSE,
     extra_objs_lkmc_common |-> FALSE,
     gem5_unimplemented_instruction |-> FALSE,
     qemu_unimplemented_instruction |-> FALSE,
     qemu_x86_64_int_syscall |-> FALSE,
     interactive |-> FALSE,
     more_than_1s |-> FALSE,
     no_build |-> FALSE,
     no_executable |-> FALSE,
     requires_argument |-> FALSE,
     requires_dynamic_library |-> FALSE,
     requires_m5ops |-> FALSE,
     requires_syscall_getcpu |-> FALSE,
     requires_semihosting |-> FALSE,
     requires_kernel_modules |-> FALSE,
     requires_sudo |-> FALSE,
     signal_generated_by_os |-> FALSE,
     signal_received |-> None,
     skip_run_unclassified |-> FALSE,
     test_run_args |-> EmptyDict,
     userland |-> FALSE]

(* PathProperties(properties): ValueError on a key outside the schema,     *)
(* else an object holding a copy of the dict; path_components is not set.  *)
PathProperties(properties) ==
    IF \E key \in DOMAIN properties : key \notin DOMAIN default_properties
    THEN [raised |-> "ValueError", properties |-> EmptyDict,
          path_components |-> <<>>]
    ELSE [raised |-> "", properties |-> properties, path_components |-> <<>>]

set_path_components(self, path_components) ==
    [self EXCEPT !.path_components = path_components]

(* self[key] *)
GetItem(self, key) == self.properties[key]

(* os.path.splitext(p)[1] of a path component (which holds no separator):  *)
(* the text from the last dot on, provided a character other than a dot    *)
(* precedes that dot; otherwise the empty str.                             *)
splitext_ext(p) ==
    LET dots == {i \in 1..Len(p) : CharAt(p, i) = "."}
    IN  IF dots = {} THEN ""
        ELSE LET dotIndex == CHOOSE i \in dots : \A j \in dots : j <= i
             IN  IF \E filenameIndex \in 1..(dotIndex - 1) :
                        CharAt(p, filenameIndex) # "."
                 THEN SubSeq(p, dotIndex, Len(p))
                 ELSE ""

(* The outcome of a call: the exception it raised ("" if none) and the     *)
(* value it returned (meaningful only when nothing was raised).            *)
Returned(value) == [raised |-> "", returned |-> value]

Raised(exception) == [raised |-> exception, returned |-> FALSE]

(* The first operand of the conjunction in should_be_built.  Python        *)
(* evaluates it left to right: path_components[2] is read only when the    *)
(* three tests before it are true, and raises IndexError when the path has *)
(* no third component.  Indices are 1-based here.                          *)
libs_excluded(self, env) ==
    IF Len(self.path_components) > 1
       /\ self.path_components[2] = "libs"
       /\ ~env.package_all
    THEN IF Len(self.path_components) < 3
         THEN Raised("IndexError")
         ELSE Returned(self.path_components[3] \notin env.package)
    ELSE Returned(FALSE)

should_be_built(self, env, link) ==
    LET ext == splitext_ext(self.path_components[Len(self.path_components)])
        libs == libs_excluded(self, env)
    IN  IF libs.raised # "" THEN libs
        ELSE Returned(
            /\ ~libs.returned
            /\ ~GetItem(self, "no_build")
            /\ \/ GetItem(self, "allowed_archs").type = "NoneType"
               \/ PyIn(env.arch, GetItem(self, "allowed_archs"))
            /\ ~ \/ /\ env.mode = "userland"
                    /\ \/ ~GetItem(self, "userland")
                       \/ ext \notin env.build_in_exts
                 \/ /\ env.mode = "baremetal"
                    /\ \/ ~GetItem(self, "baremetal")
                       \/ ext \notin env.baremetal_build_in_exts
            /\ ~(link /\ GetItem(self, "no_executable")))

(* should_be_tested without its first conjunct *)
should_be_tested_without_built(self, env) ==
    LET built == should_be_built(self, env, FALSE)
    IN  IF built.raised # "" THEN built
        ELSE Returned(
            /\ ~ /\ env.mode = "baremetal"
                 /\ \/ GetItem(self, "arm_aarch32")
                    \/ GetItem(self, "signal_generated_by_os")
            /\ ~GetItem(self, "disrupts_system")
            /\ ~GetItem(self, "interactive")
            /\ ~GetItem(self, "more_than_1s")
            /\ ~GetItem(self, "no_executable")
            /\ ~GetItem(self, "requires_argument")
            /\ ~GetItem(self, "requires_kernel_modules")
            /\ ~GetItem(self, "requires_sudo")
            /\ ~GetItem(self, "skip_run_unclassified")
            /\ ~GetItem(self, "qemu_x86_64_int_syscall")
            /\ ~ /\ env.emulator = "gem5"
                 /\ \/ GetItem(self, "gem5_unimplemented_instruction")
                    \/ GetItem(self, "signal_received").type # "NoneType"
                    \/ GetItem(self, "requires_dynamic_library")
                    \/ GetItem(self, "requires_semihosting")
                    \/ GetItem(self, "requires_syscall_getcpu")
            /\ ~ /\ env.emulator = "qemu"
                 /\ \/ GetItem(self, "requires_m5ops")
                    \/ /\ env.mode = "baremetal"
                       /\ GetItem(self, "qemu_unimplemented_instruction"))

(* should_be_tested with the signal_received exclusion outside the gem5 test *)
should_be_tested_signal_any_emulator(self, env) ==
    LET built == should_be_built(self, env, FALSE)
    IN  IF built.raised # "" THEN built
        ELSE Returned(
            /\ built.returned
            /\ ~ /\ env.mode = "baremetal"
                 /\ \/ GetItem(self, "arm_aarch32")
                    \/ GetItem(self, "signal_generated_by_os")
            /\ ~GetItem(self, "disrupts_system")
            /\ ~GetItem(self, "interactive")
            /\ ~GetItem(self, "more_than_1s")
            /\ ~GetItem(self, "no_executable")
            /\ ~GetItem(self, "requires_argument")
            /\ ~GetItem(self, "requires_kernel_modules")
            /\ ~GetItem(self, "requires_sudo")
            /\ ~GetItem(self, "skip_run_unclassified")
            /\ ~GetItem(self, "qemu_x86_64_int_syscall")
            /\ GetItem(self, "signal_received").type = "NoneType"
            /\ ~ /\ env.emulator = "gem5"
                 /\ \/ GetItem(self, "gem5_unimplemented_instruction")
                    \/ GetItem(self, "requires_dynamic_library")
                    \/ GetItem(self, "requires_semihosting")
                    \/ GetItem(self, "requires_syscall_getcpu")
            /\ ~ /\ env.emulator = "qemu"
                 /\ \/ GetItem(self, "requires_m5ops")
                    \/ /\ env.mode = "baremetal"
                       /\ GetItem(self, "qemu_unimplemented_instruction"))

(* should_be_tested without the requires_sudo exclusion *)
should_be_tested_without_sudo(self, env) ==
    LET built == should_be_built(self, env, FALSE)
    IN  IF built.raised # "" THEN built
        ELSE Returned(
            /\ built.returned
            /\ ~ /\ env.mode = "baremetal"
                 /\ \/ GetItem(self, "arm_aarch32")
                    \/ GetItem(self, "signal_generated_by_os")
            /\ ~GetItem(self, "disrupts_system")
            /\ ~GetItem(self, "interactive")
            /\ ~GetItem(self, "more_than_1s")
            /\ ~GetItem(self, "no_executable")
            /\ ~GetItem(self, "requires_argument")
            /\ ~GetItem(self, "requires_kernel_modules")
            /\ ~GetItem(self, "skip_run_unclassified")
            /\ ~GetItem(self, "qemu_x86_64_int_syscall")
            /\ ~ /\ env.emulator = "gem5"
                 /\ \/ GetItem(self, "gem5_unimplemented_instruction")
                    \/ GetItem(self, "signal_received").type # "NoneType"
                    \/ GetItem(self, "requires_dynamic_library")
                    \/ GetItem(self, "requires_semihosting")
                    \/ GetItem(self, "requires_syscall_getcpu")
            /\ ~ /\ env.emulator = "qemu"
                 /\ \/ GetItem(self, "requires_m5ops")
                    \/ /\ env.mode = "baremetal"
                       /\ GetItem(self, "qemu_unimplemented_instruction"))

should_be_tested(self, env) ==
    LET built == should_be_built(self, env, FALSE)
    IN  IF built.raised # "" THEN built
        ELSE Returned(
            /\ built.returned
            /\ ~ /\ env.mode = "baremetal"
                 /\ \/ GetItem(self, "arm_aarch32")
                    \/ GetItem(self, "signal_generated_by_os")
            /\ ~GetItem(self, "disrupts_system")
            /\ ~GetItem(self, "interactive")
            /\ ~GetItem(self, "more_than_1s")
            /\ ~GetItem(self, "no_executable")
            /\ ~GetItem(self, "requires_argument")
            /\ ~GetItem(self, "requires_kernel_modules")
            /\ ~GetItem(self, "requires_sudo")
            /\ ~GetItem(self, "skip_run_unclassified")
            /\ ~GetItem(self, "qemu_x86_64_int_syscall")
            /\ ~ /\ env.emulator = "gem5"
                 /\ \/ GetItem(self, "gem5_unimplemented_instruction")
                    \/ GetItem(self, "signal_received").type # "NoneType"
                    \/ GetItem(self, "requires_dynamic_library")
                    \/ GetItem(self, "requires_semihosting")
                    \/ GetItem(self, "requires_syscall_getcpu")
            /\ ~ /\ env.emulator = "qemu"
                 /\ \/ GetItem(self, "requires_m5ops")
                    \/ /\ env.mode = "baremetal"
                       /\ GetItem(self, "qemu_unimplemented_instruction"))

(* _update_dict that leaves the delta's mapping as it is *)
_update_dict_replace(self, other_tmp_properties, key) == other_tmp_properties

(* _update_dict and _update_list return the new other_tmp_properties *)
_update_dict(self, other_tmp_properties, key) ==
    IF key \in DOMAIN self.properties /\ key \in DOMAIN other_tmp_properties
    THEN [other_tmp_properties EXCEPT
             ![key] = DictUpdate(self.properties[key], other_tmp_properties[key])]
    ELSE other_tmp_properties

(* _update_list with the operands of + exchanged *)
_update_list_delta_first(self, other_tmp_properties, key) ==
    IF key \in DOMAIN self.properties /\ key \in DOMAIN other_tmp_properties
    THEN [other_tmp_properties EXCEPT
             ![key] = other_tmp_properties[key] \o self.properties[key]]
    ELSE other_tmp_properties

_update_list(self, other_tmp_properties, key) ==
    IF key \in DOMAIN self.properties /\ key \in DOMAIN other_tmp_properties
    THEN [other_tmp_properties EXCEPT
             ![key] = self.properties[key] \o other_tmp_properties[key]]
    ELSE other_tmp_properties

(* update that keeps the value self already has for a key *)
update_base_wins(self, other) ==
    LET tmp0 == other.properties
        tmp1 == _update_list(self, tmp0, "cc_flags")
        tmp2 == _update_list(self, tmp1, "cc_flags_after")
        tmp3 == _update_list(self, tmp2, "extra_objs")
        tmp4 == _update_dict(self, tmp3, "test_run_args")
    IN  [self EXCEPT !.properties = DictUpdate(tmp4, self.properties)]

(* self.update(other): the object self after the call *)
update(self, other) ==
    LET tmp0 == other.properties
        tmp1 == _update_list(self, tmp0, "cc_flags")
        tmp2 == _update_list(self, tmp1, "cc_flags_after")
        tmp3 == _update_list(self, tmp2, "extra_objs")
        tmp4 == _update_dict(self, tmp3, "test_run_args")
    IN  [self EXCEPT !.properties = DictUpdate(self.properties, tmp4)]

----------------------------------------------------------------------------
(* class PrefixTree *)

(* PrefixTree(path_properties_dict, children).  The children are kept as   *)
(* given; make_from_tuples replaces each by the tree built from it.        *)
PrefixTree(path_properties_dict, children) ==
    LET path_properties == PathProperties(path_properties_dict)
    IN  [raised |-> path_properties.raised,
         path_properties |-> path_properties,
         children |-> children]

tree_from_tuples(tuple_) ==
    LET t == IF tuple_.type # "tuple" THEN Tuple(tuple_.dict, EmptyDict)
             ELSE tuple_
    IN  PrefixTree(t.elts[1], t.elts[2])

(* make_from_tuples that builds the children of the top node only *)
make_from_tuples_one_level(tuples) ==
    LET cur_tree == tree_from_tuples(tuples)
        new_trees == [child_key \in DOMAIN cur_tree.children |->
                         LET new_tree == tree_from_tuples(cur_tree.children[child_key])
                         IN  [new_tree EXCEPT !.children = EmptyDict]]
    IN  IF cur_tree.raised # "" THEN [cur_tree EXCEPT !.children = EmptyDict]
        ELSE IF \E child_key \in DOMAIN new_trees :
                    new_trees[child_key].raised # ""
        THEN [cur_tree EXCEPT !.raised = "ValueError",
                              !.children = EmptyDict]
        ELSE [cur_tree EXCEPT !.children = new_trees]

(* make_from_tuples(tuples).  The work list visits every node below the    *)
(* top one, whatever the order, and builds each child from its declaration *)
(* in place; the first ValueError leaves the function and no tree is       *)
(* returned.  The result is therefore the top tree with every child        *)
(* replaced by the tree built the same way, or the ValueError of any node. *)
RECURSIVE make_from_tuples(_)
make_from_tuples(tuples) ==
    LET cur_tree == tree_from_tuples(tuples)
        new_trees == [child_key \in DOMAIN cur_tree.children |->
                         make_from_tuples(cur_tree.children[child_key])]
    IN  IF cur_tree.raised # "" THEN [cur_tree EXCEPT !.children = EmptyDict]
        ELSE IF \E child_key \in DOMAIN new_trees :
                    new_trees[child_key].raised # ""
        THEN [cur_tree EXCEPT !.raised = "ValueError",
                              !.children = EmptyDict]
        ELSE [cur_tree EXCEPT !.children = new_trees]

----------------------------------------------------------------------------
(* get(path) *)

(* path.split(os.sep) with os.sep = "/" *)
RECURSIVE split(_)
split(path) ==
    LET seps == {i \in 1..Len(path) : CharAt(path, i) = "/"}
    IN  IF seps = {} THEN <<path>>
        ELSE LET i == CHOOSE k \in seps : \A j \in seps : k <= j
             IN  <<SubSeq(path, 1, i - 1)>>
                 \o split(SubSeq(path, i + 1, Len(path)))

(* The loop of get with continue in the place of break *)
RECURSIVE get_loop_continue(_, _, _, _)
get_loop_continue(cur_node, path_components, i, path_properties) ==
    IF i > Len(path_components) THEN path_properties
    ELSE IF path_components[i] \in DOMAIN cur_node.children
    THEN LET next_node == cur_node.children[path_components[i]]
         IN  get_loop_continue(next_node, path_components, i + 1,
                      update(path_properties, next_node.path_properties))
    ELSE get_loop_continue(cur_node, path_components, i + 1, path_properties)

(* The loop of get from component number i on: descend while the component *)
(* names a child of cur_node, merging that child's overrides; break at the *)
(* first component that names none.                                        *)
RECURSIVE get_loop(_, _, _, _)
get_loop(cur_node, path_components, i, path_properties) ==
    IF i > Len(path_components) THEN path_properties
    ELSE IF path_components[i] \in DOMAIN cur_node.children
    THEN LET next_node == cur_node.children[path_components[i]]
         IN  get_loop(next_node, path_components, i + 1,
                      update(path_properties, next_node.path_properties))
    ELSE path_properties

(* get that starts from an empty dict instead of the root's properties *)
get_from_empty(tree, path) ==
    LET cur_node == tree
        path_components == split(path)
        path_properties == PathProperties(EmptyDict)
    IN  set_path_components(
            get_loop(cur_node, path_components, 1, path_properties),
            path_components)

get(tree, path) ==
    LET cur_node == tree
        path_components == split(path)
        path_properties == PathProperties(cur_node.path_properties.properties)
    IN  set_path_components(
            get_loop(cur_node, path_components, 1, path_properties),
            path_components)

----------------------------------------------------------------------------
(* The declared overrides.  Tuple(overrides, children) is a node written   *)
(* as a pair, Dict(overrides) a node written as its overrides alone.       *)

gnu_extension_properties ==
    [c_std |-> "gnu11", cc_pedantic |-> FALSE, cxx_std |-> "gnu++17"]

freestanding_properties ==
    [baremetal |-> FALSE,
     cc_flags |-> <<"-ffreestanding", LF, "-nostdlib", LF, "-static", LF>>,
     extra_objs_lkmc_common |-> FALSE]

path_properties_tuples ==
    Tuple(default_properties,
        "baremetal" :> Tuple([baremetal |-> TRUE],
            "arch" :> Tuple(EmptyDict,
                "arm" :> Tuple([allowed_archs |-> SetOf({"arm"})],
                    "multicore.S" :> Dict([test_run_args |-> ("cpus" :> 2)]) @@
                    "no_bootloader" :> Tuple([extra_objs_disable_baremetal_bootloader |-> TRUE],
                        "gem5_exit.S" :> Dict([requires_m5ops |-> TRUE]) @@
                        "semihost_exit.S" :> Dict([requires_semihosting |-> TRUE])) @@
                    "return1.S" :> Dict([exit_status |-> 1]) @@
                    "semihost_exit.S" :> Dict([requires_semihosting |-> TRUE])) @@
                "aarch64" :> Tuple([allowed_archs |-> SetOf({"aarch64"})],
                    "multicore.S" :> Dict([test_run_args |-> ("cpus" :> 2)]) @@
                    "no_bootloader" :> Tuple([extra_objs_disable_baremetal_bootloader |-> TRUE],
                        "gem5_exit.S" :> Dict([requires_m5ops |-> TRUE]) @@
                        "semihost_exit.S" :> Dict([requires_semihosting |-> TRUE]) @@
                        "wfe_loop.S" :> Dict([more_than_1s |-> TRUE])) @@
                    "return1.S" :> Dict([exit_status |-> 1]) @@
                    "semihost_exit.S" :> Dict([requires_semihosting |-> TRUE]) @@
                    "svc.c" :> Dict([cc_pedantic |-> FALSE]) @@
                    "timer.c" :> Dict([skip_run_unclassified |-> TRUE]))) @@
            "lib" :> Dict([no_executable |-> TRUE]) @@
            "getchar.c" :> Dict([interactive |-> TRUE])) @@
        "kernel_modules" :> Tuple(EmptyDict,
            "float.c" :> Dict([allowed_archs |-> Str("x86_64")])) @@
        "lkmc.c" :> Dict([baremetal |-> TRUE, userland |-> TRUE]) @@
        "userland" :> Tuple([userland |-> TRUE],
            "arch" :> Tuple([baremetal |-> TRUE, extra_objs_lkmc_common |-> TRUE],
                "arm" :> Tuple([allowed_archs |-> SetOf({"arm"}), cc_flags |-> <<"-Xassembler", "-mfpu=crypto-neon-fp-armv8.1", LF, "-Xassembler", "-meabi=5", LF, "-marm", LF, "-masm-syntax-unified", LF>>],
                    "inline_asm" :> Tuple(EmptyDict,
                        "freestanding" :> Dict(freestanding_properties)) @@
                    "freestanding" :> Dict(freestanding_properties) @@
                    "lkmc_assert_eq_fail.S" :> Dict([signal_received |-> SIGABRT]) @@
                    "lkmc_assert_memcmp_fail.S" :> Dict([signal_received |-> SIGABRT]) @@
                    "udf.S" :> Dict([signal_generated_by_os |-> TRUE, signal_received |-> SIGILL]) @@
                    "vcvta.S" :> Dict([arm_aarch32 |-> TRUE, gem5_unimplemented_instruction |-> TRUE])) @@
                "aarch64" :> Tuple([allowed_archs |-> SetOf({"aarch64"})],
                    "inline_asm" :> Tuple(EmptyDict,
                        "freestanding" :> Dict(freestanding_properties)) @@
                    "freestanding" :> Dict(freestanding_properties) @@
                    "lkmc_assert_eq_fail.S" :> Dict([signal_received |-> SIGABRT]) @@
                    "lkmc_assert_memcmp_fail.S" :> Dict([signal_received |-> SIGABRT]) @@
                    "udf.S" :> Dict([signal_generated_by_os |-> TRUE, signal_received |-> SIGILL]) @@
                    "sve.S" :> Dict([gem5_unimplemented_instruction |-> TRUE])) @@
                "x86_64" :> Tuple([allowed_archs |-> SetOf({"x86_64"})],
                    "freestanding" :> Tuple(freestanding_properties,
                        "linux" :> Tuple(EmptyDict,
                            "int_system_call.S" :> Dict([qemu_x86_64_int_syscall |-> TRUE]))) @@
                    "inline_asm" :> Tuple(EmptyDict,
                        "freestanding" :> Dict(freestanding_properties)) @@
                    "intrinsics" :> Tuple(EmptyDict,
                        "rdtscp.c" :> Dict([gem5_unimplemented_instruction |-> TRUE, qemu_unimplemented_instruction |-> TRUE])) @@
                    "div_overflow.S" :> Dict([signal_received |-> SIGFPE]) @@
                    "div_zero.S" :> Dict([signal_received |-> SIGFPE]) @@
                    "lkmc_assert_eq_fail.S" :> Dict([signal_received |-> SIGABRT]) @@
                    "lkmc_assert_memcmp_fail.S" :> Dict([signal_received |-> SIGABRT]) @@
                    "popcnt.S" :> Dict([qemu_unimplemented_instruction |-> TRUE]) @@
                    "rdrand.S" :> Dict([gem5_unimplemented_instruction |-> TRUE, qemu_unimplemented_instruction |-> TRUE]) @@
                    "rdtscp.S" :> Dict([qemu_unimplemented_instruction |-> TRUE]) @@
                    "ring0.c" :> Dict([signal_received |-> SIGSEGV]) @@
                    "vfmadd132pd.S" :> Dict([gem5_unimplemented_instruction |-> TRUE, qemu_unimplemented_instruction |-> TRUE])) @@
                "lkmc_assert_fail.S" :> Dict([signal_received |-> SIGABRT])) @@
            "c" :> Tuple([baremetal |-> TRUE],
                "abort.c" :> Dict([signal_received |-> SIGABRT]) @@
                "assert_fail.c" :> Dict([signal_received |-> SIGABRT]) @@
                "exit1.c" :> Dict([exit_status |-> 1]) @@
                "exit2.c" :> Dict([exit_status |-> 2]) @@
                "false.c" :> Dict([exit_status |-> 1]) @@
                "file_write_read.c" :> Dict([baremetal |-> FALSE]) @@
                "getchar.c" :> Dict([interactive |-> TRUE]) @@
                "infinite_loop.c" :> Dict([more_than_1s |-> TRUE]) @@
                "out_of_memory.c" :> Dict([disrupts_system |-> TRUE]) @@
                "return1.c" :> Dict([exit_status |-> 1]) @@
                "return2.c" :> Dict([exit_status |-> 2])) @@
            "cpp" :> Tuple(EmptyDict,
                "atomic.cpp" :> Dict([test_run_args |-> ("cpus" :> 3), gem5_unimplemented_instruction |-> TRUE]) @@
                "count.cpp" :> Dict([more_than_1s |-> TRUE]) @@
                "sleep_for.cpp" :> Dict([more_than_1s |-> TRUE])) @@
            "gcc" :> Tuple(gnu_extension_properties,
                "openmp.c" :> Dict([cc_flags |-> <<"-fopenmp", LF>>])) @@
            "gdb_tests" :> Dict([baremetal |-> TRUE]) @@
            "kernel_modules" :> Dict(DictUpdate(gnu_extension_properties,
                                              [requires_kernel_modules |-> TRUE])) @@
            "libs" :> Tuple([requires_dynamic_library |-> TRUE],
                "libdrm" :> Dict([requires_sudo |-> TRUE])) @@
            "linux" :> Tuple(gnu_extension_properties,
                "ctrl_alt_del.c" :> Dict([requires_sudo |-> TRUE]) @@
                "init_env_poweroff.c" :> Dict([requires_sudo |-> TRUE]) @@
                "myinsmod.c" :> Dict([requires_sudo |-> TRUE]) @@
                "myrmmod.c" :> Dict([requires_sudo |-> TRUE]) @@
                "pagemap_dump.c" :> Dict([requires_argument |-> TRUE]) @@
                "poweroff.c" :> Dict([requires_sudo |-> TRUE]) @@
                "proc_events.c" :> Dict([requires_sudo |-> TRUE]) @@
                "sched_getaffinity.c" :> Dict([requires_syscall_getcpu |-> TRUE]) @@
                "sched_getaffinity_threads.c" :> Dict([more_than_1s |-> TRUE, requires_syscall_getcpu |-> TRUE]) @@
                "time_boot.c" :> Dict([requires_sudo |-> TRUE]) @@
                "virt_to_phys_user.c" :> Dict([requires_argument |-> TRUE])) @@
            "posix" :> Tuple(EmptyDict,
                "count.c" :> Dict([more_than_1s |-> TRUE]) @@
                "count_to.c" :> Dict([more_than_1s |-> TRUE]) @@
                "kill.c" :> Dict([baremetal |-> TRUE, signal_received |-> SIGHUP]) @@
                "pthread_count.c" :> Dict([more_than_1s |-> TRUE, test_run_args |-> ("cpus" :> 2)]) @@
                "pthread_self.c" :> Dict([test_run_args |-> ("cpus" :> 2)]) @@
                "sleep_forever.c" :> Dict([more_than_1s |-> TRUE]) @@
                "virt_to_phys_test.c" :> Dict([more_than_1s |-> TRUE]))))


(* A second declaration, of the shape make_from_tuples accepts, in which   *)
(* nested nodes declare the same list, mapping and scalar properties.      *)
nested_tuples ==
    Tuple(default_properties,
        "sudo.c" :> Dict([requires_sudo |-> TRUE]) @@
        "app" :> Tuple([userland |-> TRUE,
                        baremetal |-> TRUE,
                        cc_flags |-> <<"-O1", LF>>,
                        extra_objs |-> <<"a.o">>,
                        test_run_args |-> ("cpus" :> 2 @@ "mem" :> 1)],
            "libs" :> Tuple([cc_pedantic |-> FALSE, no_build |-> TRUE],
                "libdrm" :> Tuple([cc_pedantic |-> TRUE,
                                   cc_flags |-> <<"-O2", LF>>,
                                   extra_objs |-> <<"b.o", "a.o">>,
                                   test_run_args |-> ("cpus" :> 4 @@ "smp" :> 1)],
                    "main.c" :> Dict([no_build |-> FALSE,
                                      exit_status |-> 3,
                                      test_run_args |-> ("mem" :> 8)]) @@
                    "util.c" :> Dict([no_executable |-> TRUE]))) @@
            "main.c" :> Dict([cc_flags_after |-> <<"-lpthread", LF>>,
                              test_run_args |-> EmptyDict])))

----------------------------------------------------------------------------
(* Inputs *)

(* How many components that match nothing a path may carry after (or, at   *)
(* the root, instead of) the components that name nodes.                   *)
MaxTail == 2

TailComponents == {"x.c", "libs"}

UnknownKey == "no_biuld"

(* a/b *)
Join(a, b) == IF a = "" THEN b ELSE IF b = "" THEN a ELSE a \o "/" \o b

(* The overrides and the children a declaration node is written with *)
DeclaredProperties(tuple_) ==
    IF tuple_.type = "tuple" THEN tuple_.elts[1] ELSE tuple_.dict

DeclaredChildren(tuple_) ==
    IF tuple_.type = "tuple" THEN tuple_.elts[2] ELSE EmptyDict

(* The nodes of a declaration, each as the sequence of its segment names *)
RECURSIVE DeclaredNodes(_)
DeclaredNodes(tuple_) ==
    {<<>>} \cup UNION {{<<k>> \o n : n \in DeclaredNodes(DeclaredChildren(tuple_)[k])} :
                          k \in DOMAIN DeclaredChildren(tuple_)}

(* The declaration node that the segment names in node lead to *)
RECURSIVE DeclaredAt(_, _)
DeclaredAt(tuple_, node) ==
    IF node = <<>> THEN tuple_
    ELSE DeclaredAt(DeclaredChildren(tuple_)[Head(node)], Tail(node))

(* The declaration with one more key, UnknownKey, in the overrides of node *)
RECURSIVE WithUnknownKey(_, _)
WithUnknownKey(tuple_, node) ==
    IF node = <<>>
    THEN IF tuple_.type = "tuple"
         THEN Tuple((UnknownKey :> TRUE) @@ tuple_.elts[1], tuple_.elts[2])
         ELSE Dict((UnknownKey :> TRUE) @@ tuple_.dict)
    ELSE Tuple(tuple_.elts[1],
               [k \in DOMAIN tuple_.elts[2] |->
                   IF k = Head(node)
                   THEN WithUnknownKey(tuple_.elts[2][k], Tail(node))
                   ELSE tuple_.elts[2][k]])

TupleInputs ==
    {path_properties_tuples, nested_tuples}
    \cup {WithUnknownKey(nested_tuples, node) : node \in DeclaredNodes(nested_tuples)}

(* Overrides records a caller may construct directly *)
PropertiesInputs ==
    {EmptyDict,
     [requires_sudo |-> TRUE],
     gnu_extension_properties,
     freestanding_properties,
     default_properties,
     (UnknownKey :> TRUE),
     (UnknownKey :> TRUE) @@ freestanding_properties,
     ("path_components" :> <<"a">>) @@ default_properties}

(* The path of a node of a built tree: its segment names joined by "/" *)
RECURSIVE NodePaths(_, _)
NodePaths(tree, prefix) ==
    {prefix} \cup UNION {NodePaths(tree.children[k], Join(prefix, k)) :
                            k \in DOMAIN tree.children}

RECURSIVE Tails(_)
Tails(n) ==
    IF n = 0 THEN {""}
    ELSE Tails(n - 1) \cup {Join(t, c) : t \in Tails(n - 1), c \in TailComponents}

PathInputs(tree) ==
    {Join(p, t) : p \in NodePaths(tree, ""), t \in Tails(MaxTail)}

(* The environment is the caller's.  The predicates compare env['mode']   *)
(* with 'userland' and with 'baremetal' and env['emulator'] with 'gem5'    *)
(* and with 'qemu', each on its own, so a value that is neither is an input *)
(* too: "none" and "native" stand for those.                               *)
Archs == {"x86_64", "arm", "aarch64"}

Modes == {"userland", "baremetal", "none"}

Emulators == {"qemu", "gem5", "native"}

Envs ==
    [arch : Archs,
     mode : Modes,
     emulator : Emulators,
     package_all : BOOLEAN,
     package : {{"libdrm"}},
     build_in_exts : {{".c", ".cpp", ".S"}},
     baremetal_build_in_exts : {{".c", ".S"}}]

----------------------------------------------------------------------------
(* State *)

VARIABLES
    pc,                    \* "import", "failed", "idle", "constructed",
                           \* "resolved", "judged"
    tuples,                \* the declaration make_from_tuples is given
    path_properties_tree,  \* the module's tree
    path,                  \* the argument of the last get
    path_properties,       \* the object the last get returned
    call,                  \* the last predicate call and its outcome
    constructed,           \* the last direct PathProperties(...) call
    store,                 \* the dict, list and mapping objects, by identity
    results,               \* the sets the get calls returned, oldest first
    writes                 \* how many times a caller modified a returned set

heap_vars == <<store, results, writes>>

vars == <<pc, tuples, path_properties_tree, path, path_properties, call,
          constructed, store, results, writes>>

NoStore == [dicts |-> EmptyDict, objs |-> EmptyDict, children |-> EmptyDict]

NoTree == [raised |-> "NameError",
           path_properties |-> PathProperties(EmptyDict),
           children |-> EmptyDict]

NoPathProperties == PathProperties(EmptyDict)

NoEnv == CHOOSE env \in Envs : TRUE

NoCall == [op |-> "", env |-> NoEnv, link |-> FALSE, outcome |-> Returned(FALSE)]

NoConstruction == [properties |-> EmptyDict, object |-> PathProperties(EmptyDict)]

Init ==
    /\ pc = "import"
    /\ tuples \in TupleInputs
    /\ path_properties_tree = NoTree
    /\ path = ""
    /\ path_properties = NoPathProperties
    /\ call = NoCall
    /\ constructed = NoConstruction
    /\ store = NoStore
    /\ results = <<>>
    /\ writes = 0

(* path_properties_tree = PrefixTree.make_from_tuples(...) *)
MakeFromTuples ==
    /\ pc = "import"
    /\ path_properties_tree' = make_from_tuples(tuples)
    /\ pc' = IF path_properties_tree'.raised # "" THEN "failed" ELSE "idle"
    /\ UNCHANGED <<tuples, path, path_properties, call, constructed>>
    /\ UNCHANGED heap_vars

(* PathProperties(properties), called directly *)
Construct(properties) ==
    /\ pc = "idle"
    /\ constructed' = [properties |-> properties,
                       object |-> PathProperties(properties)]
    /\ pc' = "constructed"
    /\ UNCHANGED <<tuples, path_properties_tree, path, path_properties, call>>
    /\ UNCHANGED heap_vars

(* path_properties = get(path) *)
Get(p) ==
    /\ pc = "idle"
    /\ path' = p
    /\ path_properties' = get(path_properties_tree, p)
    /\ pc' = "resolved"
    /\ UNCHANGED <<tuples, path_properties_tree, call, constructed>>
    /\ UNCHANGED heap_vars

(* path_properties.should_be_built(env, link) *)
ShouldBeBuilt(env, link) ==
    /\ pc = "resolved"
    /\ call' = [op |-> "should_be_built", env |-> env, link |-> link,
                outcome |-> should_be_built(path_properties, env, link)]
    /\ pc' = "judged"
    /\ UNCHANGED <<tuples, path_properties_tree, path, path_properties, constructed>>
    /\ UNCHANGED heap_vars

(* path_properties.should_be_tested(env) *)
ShouldBeTested(env) ==
    /\ pc = "resolved"
    /\ call' = [op |-> "should_be_tested", env |-> env, link |-> FALSE,
                outcome |-> should_be_tested(path_properties, env)]
    /\ pc' = "judged"
    /\ UNCHANGED <<tuples, path_properties_tree, path, path_properties, constructed>>
    /\ UNCHANGED heap_vars

(* The caller drops the object it constructed, or the resolved set once a  *)
(* predicate has consumed it                                               *)
Discard ==
    /\ pc \in {"constructed", "judged"}
    /\ pc' = "idle"
    /\ path' = ""
    /\ path_properties' = NoPathProperties
    /\ call' = NoCall
    /\ constructed' = NoConstruction
    /\ UNCHANGED <<tuples, path_properties_tree>>
    /\ UNCHANGED heap_vars

Next ==
    \/ MakeFromTuples
    \/ \E properties \in PropertiesInputs : Construct(properties)
    \/ /\ pc = "idle"
       /\ \E p \in PathInputs(path_properties_tree) : Get(p)
    \/ \E env \in Envs, link \in BOOLEAN : ShouldBeBuilt(env, link)
    \/ \E env \in Envs : ShouldBeTested(env)
    \/ Discard

Spec == Init /\ [][Next]_vars

----------------------------------------------------------------------------
(* What a resolved set is compared with: the chain of nodes that the        *)
(* components of the path name, read off the tree without the resolver.     *)

ListKeys == {"cc_flags", "cc_flags_after", "extra_objs"}

DictKeys == {"test_run_args"}

ScalarKeys == (DOMAIN default_properties \ ListKeys) \ DictKeys

(* get has just returned path_properties *)
Resolved == pc = "resolved"

RECURSIVE IsNode(_, _)
IsNode(tree, components) ==
    \/ components = <<>>
    \/ /\ Head(components) \in DOMAIN tree.children
       /\ IsNode(tree.children[Head(components)], Tail(components))

RECURSIVE NodeAt(_, _)
NodeAt(tree, components) ==
    IF components = <<>> THEN tree
    ELSE NodeAt(tree.children[Head(components)], Tail(components))

(* The number of leading components that name a chain of nodes *)
MatchedLen(tree, components) ==
    CHOOSE n \in 0..Len(components) :
        /\ IsNode(tree, SubSeq(components, 1, n))
        /\ \A m \in (n + 1)..Len(components) :
               ~IsNode(tree, SubSeq(components, 1, m))

(* The overrides of the k-th node of the matched chain; the root is number 0 *)
Overrides(k) ==
    NodeAt(path_properties_tree,
           SubSeq(path_properties.path_components, 1, k)).path_properties.properties

Matched == MatchedLen(path_properties_tree, path_properties.path_components)

Declaring(key) == {k \in 0..Matched : key \in DOMAIN Overrides(k)}

Deepest(levels) == CHOOSE k \in levels : \A j \in levels : j <= k

(* C1: every scalar property of the resolved set has the value declared at *)
(* the deepest node of the matched chain that declares it, or the schema   *)
(* default when no matched node declares it.                               *)
C1_ScalarDeepestWins ==
    Resolved =>
        \A key \in ScalarKeys :
            path_properties.properties[key] =
                IF Declaring(key) = {} THEN default_properties[key]
                ELSE Overrides(Deepest(Declaring(key)))[key]

(* userland/c declares baremetal True, userland/c/file_write_read.c False *)
C1_Witness ==
    /\ Resolved
    /\ path = "userland/c/file_write_read.c"
    /\ Overrides(2)["baremetal"] = TRUE
    /\ path_properties.properties["baremetal"] = FALSE

RECURSIVE ConcatDeclared(_, _)
ConcatDeclared(key, k) ==
    IF k < 0 THEN <<>>
    ELSE ConcatDeclared(key, k - 1)
         \o (IF key \in DOMAIN Overrides(k) THEN Overrides(k)[key] ELSE <<>>)

(* C2: every list property of the resolved set is the concatenation, root  *)
(* first, of the values declared along the matched chain; nodes that do    *)
(* not declare it add nothing.                                             *)
C2_ListsConcatenate ==
    Resolved =>
        \A key \in ListKeys :
            path_properties.properties[key] = ConcatDeclared(key, Matched)

(* root [], app ["a.o"], app/libs nothing, app/libs/libdrm ["b.o", "a.o"]  *)
C2_Witness ==
    /\ Resolved
    /\ path = "app/libs/libdrm/main.c"
    /\ Matched = 4
    /\ "extra_objs" \notin DOMAIN Overrides(2)
    /\ path_properties.properties["extra_objs"] = <<"a.o", "b.o", "a.o">>
    /\ path_properties.properties["cc_flags"] =
           default_properties["cc_flags"] \o <<"-O1", LF, "-O2", LF>>

(* C3: test_run_args of the resolved set holds the entry keys declared at  *)
(* any matched node, each with the value of the deepest node declaring it. *)
C3_DictShallowMerge ==
    Resolved =>
        LET declaring == Declaring("test_run_args")
            entries(k) == DOMAIN Overrides(k)["test_run_args"]
            resolved == path_properties.properties["test_run_args"]
        IN  /\ DOMAIN resolved = UNION {entries(k) : k \in declaring}
            /\ \A entry \in DOMAIN resolved :
                   resolved[entry] =
                       Overrides(Deepest({k \in declaring : entry \in entries(k)}))
                           ["test_run_args"][entry]

(* cpus: 2 at app, 4 at app/libs/libdrm; mem: 1 at app only; smp below only *)
C3_Witness ==
    /\ Resolved
    /\ path = "app/libs/libdrm"
    /\ Overrides(1)["test_run_args"] = ("cpus" :> 2 @@ "mem" :> 1)
    /\ path_properties.properties["test_run_args"] =
           ("cpus" :> 4 @@ "mem" :> 1 @@ "smp" :> 1)

RECURSIVE JoinAll(_)
JoinAll(components) ==
    IF components = <<>> THEN ""
    ELSE IF Len(components) = 1 THEN components[1]
    ELSE components[1] \o "/" \o JoinAll(Tail(components))

(* C4: the properties get returns for a path are those it returns for the  *)
(* longest prefix of the path that names a chain of nodes, and get raises  *)
(* nothing.                                                                *)
C4_PrefixMatch ==
    Resolved =>
        /\ path_properties.raised = ""
        /\ path_properties.properties =
               get(path_properties_tree,
                   JoinAll(SubSeq(path_properties.path_components, 1, Matched))
                  ).properties

(* userland/x.c/libs: x.c ends the match although libs is a child of userland *)
C4_Witness ==
    /\ Resolved
    /\ Matched = 1
    /\ Len(path_properties.path_components) = 3
    /\ path_properties.path_components[3] \in DOMAIN NodeAt(path_properties_tree,
           SubSeq(path_properties.path_components, 1, 1)).children

(* C5: a path whose first component names no child of the root resolves to *)
(* exactly the schema defaults.                                            *)
C5_DefaultFallback ==
    (Resolved /\ path_properties.path_components[1]
                     \notin DOMAIN path_properties_tree.children) =>
        path_properties.properties = default_properties

C5_Witness ==
    /\ Resolved
    /\ path = "x.c/libs"
    /\ path_properties.path_components = <<"x.c", "libs">>
    /\ "libs" \notin DOMAIN path_properties_tree.children
    /\ DOMAIN path_properties.properties = DOMAIN default_properties

----------------------------------------------------------------------------
(* The predicates *)

Judged(op) == pc = "judged" /\ call.op = op

(* C6: when should_be_tested(env) returns True, should_be_built(env) with  *)
(* link=False returns True for the same resolved set and environment.      *)
C6_TestedImpliesBuilt ==
    (Judged("should_be_tested") /\ call.outcome = Returned(TRUE)) =>
        should_be_built(path_properties, call.env, FALSE) = Returned(TRUE)

C6_Witness ==
    /\ Judged("should_be_tested")
    /\ call.outcome = Returned(TRUE)
    /\ path = "userland/c/x.c"
    /\ call.env.mode = "userland"

(* C7: when the resolved no_build is True, should_be_built returns False,  *)
(* whatever the path, the environment and link.                            *)
C7_NoBuildDominates ==
    (Judged("should_be_built") /\ path_properties.properties["no_build"]) =>
        call.outcome = Returned(FALSE)

(* C8: PathProperties(...) raises ValueError exactly when a key is outside *)
(* the schema; make_from_tuples raises it exactly when some declared node, *)
(* at any depth, has such a key; a tree that is built holds schema keys    *)
(* only, in every node.                                                    *)
C8_UnknownKeyRejected ==
    LET unknown(properties) == DOMAIN properties \ DOMAIN default_properties
        declared == {DeclaredProperties(DeclaredAt(tuples, node)) :
                        node \in DeclaredNodes(tuples)}
    IN  /\ pc = "constructed" =>
               (constructed.object.raised = "ValueError"
                    <=> unknown(constructed.properties) # {})
        /\ pc = "failed" =>
               /\ path_properties_tree.raised = "ValueError"
               /\ \E properties \in declared : unknown(properties) # {}
        /\ pc = "idle" =>
               /\ path_properties_tree.raised = ""
               /\ \A properties \in declared : unknown(properties) = {}
               /\ \A node \in DeclaredNodes(tuples) :
                      /\ IsNode(path_properties_tree, node)
                      /\ unknown(NodeAt(path_properties_tree, node)
                                     .path_properties.properties) = {}

(* the unknown key sits three levels below the top node *)
C8_Witness ==
    /\ pc = "failed"
    /\ UnknownKey \in DOMAIN DeclaredProperties(
                                 DeclaredAt(tuples, <<"app", "libs", "libdrm">>))

(* C9: should_be_built and should_be_tested raise nothing on a set that    *)
(* get returned, whatever the path and the environment.                    *)
C9_PredicatesNeverRaise ==
    pc = "judged" => call.outcome.raised = ""

(* requires_sudo is True and every other property has its default *)
SudoOnly ==
    path_properties.properties =
        [default_properties EXCEPT !["requires_sudo"] = TRUE]

(* C10 as stated: with requires_sudo True and the rest default,            *)
(* should_be_built returns True and should_be_tested returns False, in     *)
(* every environment (the calls that raise are left aside).                *)
C10_SudoBuiltNotTested ==
    (pc = "judged" /\ SudoOnly /\ call.outcome.raised = "") =>
        /\ call.op = "should_be_built" => call.outcome.returned
        /\ call.op = "should_be_tested" => ~call.outcome.returned

(* C10 amended: with requires_sudo True and the rest default,              *)
(* should_be_tested never returns True; should_be_built never returns True *)
(* in userland or baremetal mode, and returns True in any other mode       *)
(* unless the libs package filter excludes the path or raises.             *)
C10_SudoNeverTested ==
    (pc = "judged" /\ SudoOnly) =>
        /\ call.op = "should_be_tested" => call.outcome # Returned(TRUE)
        /\ (call.op = "should_be_built"
              /\ call.env.mode \in {"userland", "baremetal"}) =>
               call.outcome # Returned(TRUE)
        /\ (call.op = "should_be_built"
              /\ call.env.mode \notin {"userland", "baremetal"}
              /\ libs_excluded(path_properties, call.env) = Returned(FALSE)) =>
               call.outcome = Returned(TRUE)

C10_Witness ==
    /\ Judged("should_be_tested")
    /\ SudoOnly
    /\ path = "sudo.c"
    /\ call.env.mode = "none"
    /\ call.outcome = Returned(FALSE)
    /\ should_be_built(path_properties, call.env, FALSE) = Returned(TRUE)

(* allowed_archs = {arm}, signal_generated_by_os and signal_received =     *)
(* SIGILL, asked about in userland mode for arm with a whitelisted         *)
(* extension                                                               *)
ArmSigillHosted ==
    /\ pc = "judged"
    /\ path_properties.properties["allowed_archs"] = SetOf({"arm"})
    /\ path_properties.properties["signal_generated_by_os"]
    /\ path_properties.properties["signal_received"] = SIGILL
    /\ call.env.mode = "userland"
    /\ call.env.arch = "arm"
    /\ splitext_ext(path_properties.path_components[
                        Len(path_properties.path_components)])
           \in call.env.build_in_exts

(* C11: for a path resolved with allowed_archs = {arm},                    *)
(* signal_generated_by_os and signal_received = SIGILL, in userland mode   *)
(* for arm with a whitelisted extension, should_be_built returns True and  *)
(* should_be_tested returns True under qemu (under any emulator but gem5)  *)
(* and False under gem5.                                                   *)
C11_ArmSigillScenario ==
    ArmSigillHosted =>
        /\ call.op = "should_be_built" => call.outcome = Returned(TRUE)
        /\ call.op = "should_be_tested" =>
               call.outcome = Returned(call.env.emulator # "gem5")

C11_Witness ==
    /\ ArmSigillHosted
    /\ path = "userland/arch/arm/udf.S"
    /\ call.op = "should_be_tested"
    /\ call.env.emulator = "gem5"
    /\ call.outcome = Returned(FALSE)
    /\ should_be_built(path_properties, call.env, TRUE) = Returned(TRUE)
    /\ should_be_tested(path_properties, [call.env EXCEPT !.emulator = "qemu"])
           = Returned(TRUE)

----------------------------------------------------------------------------
(* Objects and references.                                                 *)
(*                                                                         *)
(* dict.copy() is shallow: the copy is a new dict whose values are the     *)
(* objects of the original.  To follow which objects a resolved set holds, *)
(* the store keeps every properties dict and every list and mapping held   *)
(* under a key of ListKeys or DictKeys as an object with an identity:      *)
(*   store.dicts     dict id -> (key -> value, or the id of the list or    *)
(*                   mapping object held under the key)                    *)
(*   store.objs      object id -> the list or mapping as it is now         *)
(*   store.children  node id -> (segment name -> node id)                  *)
(* Sets (allowed_archs) are left as values: nothing here modifies one.     *)

MutableKeys == ListKeys \cup DictKeys

DefaultsId == <<"class", "default_properties">>

NodeId(node_path) == <<"node", node_path>>

ResultId(n) == <<"result", ToString(n)>>

(* The object an overrides dict of the declaration holds under key.  The   *)
(* top node is declared with PathProperties.default_properties itself and  *)
(* several nodes with the one dict freestanding_properties, so these hold  *)
(* the same objects; every other overrides dict is a display of its own.   *)
DeclaredObject(properties, node_path, key) ==
    IF properties = default_properties THEN <<"default_properties", "", key>>
    ELSE IF properties = freestanding_properties
    THEN <<"freestanding_properties", "", key>>
    ELSE <<"declared", node_path, key>>

(* A properties dict with the ids of its list and mapping objects *)
WithReferences(properties, node_path) ==
    [key \in DOMAIN properties |->
        IF key \in MutableKeys THEN DeclaredObject(properties, node_path, key)
        ELSE properties[key]]

(* The store once line 553 has run: the class attribute default_properties *)
(* and, per declared node, the dict self.properties = properties.copy() of *)
(* PathProperties.__init__ and the children dict of PrefixTree.__init__.   *)
InitialStore(declaration) ==
    LET nodes == DeclaredNodes(declaration)
        declared(node) == DeclaredProperties(DeclaredAt(declaration, node))
        holders == {<<"", default_properties>>}
                   \cup {<<JoinAll(node), declared(node)>> : node \in nodes}
        held == UNION {{<<DeclaredObject(h[2], h[1], key), h[2][key]>> :
                           key \in DOMAIN h[2] \cap MutableKeys} : h \in holders}
    IN  [dicts |->
             (DefaultsId :> WithReferences(default_properties, ""))
             @@ [id \in {NodeId(JoinAll(node)) : node \in nodes} |->
                    LET node == CHOOSE n \in nodes : NodeId(JoinAll(n)) = id
                    IN  WithReferences(declared(node), JoinAll(node))],
         objs |->
             [id \in {h[1] : h \in held} |->
                 (CHOOSE h \in held : h[1] = id)[2]],
         children |->
             [id \in {NodeId(JoinAll(node)) : node \in nodes} |->
                 LET node == CHOOSE n \in nodes : NodeId(JoinAll(n)) = id
                 IN  [k \in DOMAIN DeclaredChildren(DeclaredAt(declaration, node))
                         |-> NodeId(Join(JoinAll(node), k))]]]

(* properties.copy(): a new dict new_id holding the objects of dict_id *)
heap_copy(st, dict_id, new_id) ==
    [st EXCEPT !.dicts = (new_id :> st.dicts[dict_id]) @@ st.dicts]

(* _update_list and _update_dict on the store.  other_tmp_id names the     *)
(* dict other_tmp_properties; new_obj is the identity of the list or       *)
(* mapping that + or {**a, **b} creates.                                   *)
heap_update_list(st, self_id, other_tmp_id, key, new_obj) ==
    IF key \in DOMAIN st.dicts[self_id] /\ key \in DOMAIN st.dicts[other_tmp_id]
    THEN [st EXCEPT
            !.objs = (new_obj :> (st.objs[st.dicts[self_id][key]]
                                  \o st.objs[st.dicts[other_tmp_id][key]]))
                     @@ st.objs,
            !.dicts[other_tmp_id][key] = new_obj]
    ELSE st

heap_update_dict(st, self_id, other_tmp_id, key, new_obj) ==
    IF key \in DOMAIN st.dicts[self_id] /\ key \in DOMAIN st.dicts[other_tmp_id]
    THEN [st EXCEPT
            !.objs = (new_obj :> DictUpdate(st.objs[st.dicts[self_id][key]],
                                            st.objs[st.dicts[other_tmp_id][key]]))
                     @@ st.objs,
            !.dicts[other_tmp_id][key] = new_obj]
    ELSE st

OtherTmpId == <<"local", "other_tmp_properties">>

(* update that merges into other.properties itself, not into a copy of it *)
heap_update_without_copy(st, self_id, other_id, tag) ==
    LET st1 == heap_update_list(st, self_id, other_id, "cc_flags",
                                <<"new", tag, "cc_flags">>)
        st2 == heap_update_list(st1, self_id, other_id, "cc_flags_after",
                                <<"new", tag, "cc_flags_after">>)
        st3 == heap_update_list(st2, self_id, other_id, "extra_objs",
                                <<"new", tag, "extra_objs">>)
        st4 == heap_update_dict(st3, self_id, other_id, "test_run_args",
                                <<"new", tag, "test_run_args">>)
    IN  [st4 EXCEPT !.dicts[self_id] =
                        DictUpdate(st4.dicts[self_id], st4.dicts[other_id])]

(* self.update(other) on the store; tag tells this call's new objects from *)
(* those of every other call.                                              *)
heap_update(st, self_id, other_id, tag) ==
    LET st0 == heap_copy(st, other_id, OtherTmpId)
        st1 == heap_update_list(st0, self_id, OtherTmpId, "cc_flags",
                                <<"new", tag, "cc_flags">>)
        st2 == heap_update_list(st1, self_id, OtherTmpId, "cc_flags_after",
                                <<"new", tag, "cc_flags_after">>)
        st3 == heap_update_list(st2, self_id, OtherTmpId, "extra_objs",
                                <<"new", tag, "extra_objs">>)
        st4 == heap_update_dict(st3, self_id, OtherTmpId, "test_run_args",
                                <<"new", tag, "test_run_args">>)
    IN  [st4 EXCEPT !.dicts[self_id] =
                        DictUpdate(st4.dicts[self_id], st4.dicts[OtherTmpId])]

RECURSIVE heap_get_loop(_, _, _, _, _, _)
heap_get_loop(st, cur_node, path_components, i, self_id, n) ==
    IF i > Len(path_components) THEN st
    ELSE IF path_components[i] \in DOMAIN st.children[cur_node]
    THEN LET next_node == st.children[cur_node][path_components[i]]
         IN  heap_get_loop(
                 heap_update(st, self_id, next_node,
                             ToString(n) \o "." \o ToString(i)),
                 next_node, path_components, i + 1, self_id, n)
    ELSE st

(* What no reference reaches is gone: the local dicts of the call and the  *)
(* lists and mappings that a deeper merge replaced.                        *)
Collect(st) ==
    LET kept == {id \in DOMAIN st.dicts : id[1] # "local"}
        reached == UNION {{st.dicts[id][key] :
                              key \in DOMAIN st.dicts[id] \cap MutableKeys} :
                             id \in kept}
    IN  [st EXCEPT !.dicts = [id \in kept |-> st.dicts[id]],
                   !.objs = [id \in reached |-> st.objs[id]]]

(* The n-th get(path) on the store: the store after it, which holds the    *)
(* returned object's properties dict as ResultId(n).                       *)
(* Line 248 copies the root's dict and PathProperties.__init__ copies that *)
(* copy.                                                                   *)
heap_get(st, p, n) ==
    LET cur_node == NodeId("")
        path_components == split(p)
        st1 == heap_copy(st, cur_node, <<"local", "copy">>)
        st2 == heap_copy(st1, <<"local", "copy">>, ResultId(n))
    IN  Collect(heap_get_loop(st2, cur_node, path_components, 1, ResultId(n), n))

(* A dict of the store as the value a reader sees *)
ValueOf(st, dict_id) ==
    [key \in DOMAIN st.dicts[dict_id] |->
        IF key \in MutableKeys THEN st.objs[st.dicts[dict_id][key]]
        ELSE st.dicts[dict_id][key]]

----------------------------------------------------------------------------
(* Lookups one after another, by callers that keep what get returned and   *)
(* may modify the lists and the mapping they find in it.                   *)

MaxGets == 2

MaxWrites == 1

HeapPathInputs ==
    {"x.c", "userland/c/x.c", "userland/gcc/openmp.c",
     "userland/arch/arm/freestanding", "baremetal/arch/arm/multicore.S",
     "app/main.c", "app/libs/libdrm/main.c"}

HeapInit ==
    /\ pc = "idle"
    /\ tuples \in {path_properties_tuples, nested_tuples}
    /\ path_properties_tree = make_from_tuples(tuples)
    /\ path = ""
    /\ path_properties = NoPathProperties
    /\ call = NoCall
    /\ constructed = NoConstruction
    /\ store = InitialStore(tuples)
    /\ results = <<>>
    /\ writes = 0

(* get(p), the caller keeping the object returned *)
HeapGet(p) ==
    /\ Len(results) < MaxGets
    /\ store' = heap_get(store, p, Len(results) + 1)
    /\ results' = Append(results, [path |-> p, id |-> ResultId(Len(results) + 1)])
    /\ UNCHANGED <<pc, tuples, path_properties_tree, path, path_properties,
                   call, constructed, writes>>

(* A caller does r[key].append("-caller") on a set r it was returned *)
CallerAppend(i, key) ==
    /\ writes < MaxWrites
    /\ i \in 1..Len(results)
    /\ key \in ListKeys
    /\ store' = [store EXCEPT !.objs[store.dicts[results[i].id][key]] =
                                  Append(@, "-caller")]
    /\ writes' = writes + 1
    /\ UNCHANGED <<pc, tuples, path_properties_tree, path, path_properties,
                   call, constructed, results>>

(* A caller does r["test_run_args"]["caller"] = 1 on a set r it was returned *)
CallerSetItem(i) ==
    /\ writes < MaxWrites
    /\ i \in 1..Len(results)
    /\ store' = [store EXCEPT
                    !.objs[store.dicts[results[i].id]["test_run_args"]] =
                        DictUpdate(@, "caller" :> 1)]
    /\ writes' = writes + 1
    /\ UNCHANGED <<pc, tuples, path_properties_tree, path, path_properties,
                   call, constructed, results>>

HeapNext ==
    \/ \E p \in HeapPathInputs : HeapGet(p)
    \/ \E i \in 1..MaxGets, key \in ListKeys : CallerAppend(i, key)
    \/ \E i \in 1..MaxGets : CallerSetItem(i)

HeapSpec == HeapInit /\ [][HeapNext]_vars

(* The list and mapping objects that the dicts named by ids hold *)
HeldBy(ids) ==
    UNION {{store.dicts[id][key] : key \in DOMAIN store.dicts[id] \cap MutableKeys} :
              id \in ids}

TreeAndDefaults == {id \in DOMAIN store.dicts : id[1] \in {"class", "node"}}

(* C12: a set that get returned holds no list or mapping object that the   *)
(* defaults, a tree node or another returned set holds, and what callers   *)
(* do to the sets they were returned leaves the defaults and every node's  *)
(* overrides with the values they were declared with.                      *)
C12_FreshSnapshot ==
    /\ \A i \in 1..Len(results) :
           HeldBy({results[i].id})
               \cap HeldBy(TreeAndDefaults
                           \cup {results[j].id : j \in 1..Len(results) \ {i}})
             = {}
    /\ ValueOf(store, DefaultsId) = default_properties
    /\ \A node \in DeclaredNodes(tuples) :
           ValueOf(store, NodeId(JoinAll(node)))
               = NodeAt(path_properties_tree, node).path_properties.properties

(* C13: as long as get calls are all that has run since the tree was       *)
(* built, the defaults, every node's overrides dict (the objects it holds  *)
(* and their values) and every node's children are as they were built,     *)
(* and every set returned, whichever lookups ran before it, has the        *)
(* properties that resolving its path on the tree as built gives.          *)
C13_GetLeavesTreeUnchanged ==
    writes = 0 =>
        LET built == InitialStore(tuples)
        IN  /\ \A id \in DOMAIN built.dicts :
                   /\ id \in DOMAIN store.dicts
                   /\ store.dicts[id] = built.dicts[id]
                   /\ ValueOf(store, id) = ValueOf(built, id)
            /\ store.children = built.children
            /\ ValueOf(store, DefaultsId) = default_properties
            /\ \A i \in 1..Len(results) :
                   ValueOf(store, results[i].id)
                       = get(path_properties_tree, results[i].path).properties

(* the same path looked up twice, its chain declaring a list at two nodes, *)
(* and in between nothing but get                                          *)
C13_Witness ==
    /\ writes = 0
    /\ Len(results) = 2
    /\ results[1].path = "userland/arch/arm/freestanding"
    /\ results[2].path = "userland/arch/arm/freestanding"
    /\ Len(ValueOf(store, results[2].id)["cc_flags"])
           > Len(default_properties["cc_flags"])
    /\ ValueOf(store, results[1].id) = ValueOf(store, results[2].id)

====
